---- MODULE Spec2Model ----
(***************************************************************************)
(* Model of backend/app.py: the SimAlly game backend, a FastAPI relay that *)
(* creates and ends Tavus conversations and keeps the conversation of each *)
(* user in the process-wide dict active_conversations.                     *)
(*                                                                         *)
(* Every handler is an `async def` coroutine whose provider calls are the  *)
(* blocking requests.post / requests.delete: the coroutine holds the event *)
(* loop from its first line to its return.  A handler is modelled as the   *)
(* steps between its outbound calls (the provider's answer is an input of  *)
(* the next step); `running` is the task that holds the event loop.        *)
(***************************************************************************)
EXTENDS Integers, FiniteSets, Sequences, TLC

VARIABLES
    active_conversations, \* app.py:27  user_id -> [conversation_id, created_at]
    tasks,                \* request slot -> the locals and position of the request in it
    last,                 \* the request that returned last, with its response
    running,              \* the slot whose coroutine holds the event loop, 0 if none
    uuids,                \* number of uuid4() values drawn so far
    convs,                \* number of conversations the provider has created
    now,                  \* the wall clock read by datetime.now()
    provider_calls        \* every outbound call sent so far

vars == <<active_conversations, tasks, last, running, uuids, convs, now, provider_calls>>

----------------------------------------------------------------------------
(* Bounds of the model *)

MaxTasks == 2   \* request slots
MaxUuid == 1    \* uuid4() draws
MaxConv == 2    \* conversations the provider creates
MaxClock == 1   \* clock ticks

Req == 1..MaxTasks

----------------------------------------------------------------------------
(* Values *)

None == "<None>"

\* user_id strings a caller puts in a request body ("" is a valid str)
CallerIds == {"", "u1"}

\* str(uuid.uuid4()): the n-th draw, distinct from every earlier draw
Uuid(n) == "uuid-" \o ToString(n)

GeneratedIds == {Uuid(n) : n \in 1..uuids}

\* the provider's identifiers of the n-th conversation it creates
ConvId(n) == "c" \o ToString(n)

ConvUrl(n) == "https://tavus.daily.co/" \o ConvId(n)

Created == {ConvId(n) : n \in 1..convs}

\* Python truthiness of an Optional[str]
Truthy(s) == s # None /\ s # ""

EmptyMap == [u \in {} |-> None]

----------------------------------------------------------------------------
(* The provider's answers: a response with a status and a body, or a       *)
(* requests.RequestException raised by the call.                           *)

ErrorStatuses == {503}

ErrorText(status) == "error " \o ToString(status)

CreatedResponse(n) ==
    [kind |-> "response", status_code |-> 200, text |-> "json " \o ConvId(n),
     conversation_id |-> ConvId(n), conversation_url |-> ConvUrl(n)]

PlainResponse(status) ==
    [kind |-> "response", status_code |-> status,
     text |-> IF status = 200 THEN "{}" ELSE ErrorText(status),
     conversation_id |-> None, conversation_url |-> None]

TransportFailure ==
    [kind |-> "exception", status_code |-> 0, text |-> "Connection refused",
     conversation_id |-> None, conversation_url |-> None]

CreateOutcomes ==
    (IF convs < MaxConv THEN {CreatedResponse(convs + 1)} ELSE {})
    \cup {PlainResponse(s) : s \in ErrorStatuses} \cup {TransportFailure}

CallOutcomes ==
    {PlainResponse(s) : s \in {200} \cup ErrorStatuses} \cup {TransportFailure}

----------------------------------------------------------------------------
(* Outbound calls *)

CreateUrl == "https://tavusapi.com/v2/conversations"

EndUrl(conversation_id) ==
    "https://tavusapi.com/v2/conversations/" \o conversation_id \o "/end"

DeleteUrlOfEnd(conversation_id) == EndUrl(conversation_id)

DeleteUrl(conversation_id) ==
    "https://tavusapi.com/v2/conversations/" \o conversation_id

Call(method, url) == [method |-> method, url |-> url]

\* requests.post / requests.delete block the thread: the coroutine that
\* issued the call still holds the event loop while the provider answers.
OutboundCallAwaited(r) == 0

OutboundCall(r) == r

----------------------------------------------------------------------------
(* Exceptions and responses *)

HTTPException(status, detail) ==
    [type |-> "HTTPException", status_code |-> status, detail |-> detail]

RequestException(message) ==
    [type |-> "RequestException", status_code |-> 0, detail |-> message]

KeyError(key) ==
    [type |-> "KeyError", status_code |-> 0, detail |-> key]

\* repr() of a detail dict
Repr(detail) ==
    "{'success': False, 'error': '" \o detail.error \o "'"
    \o (IF "details" \in DOMAIN detail
        THEN ", 'details': '" \o detail.details \o "'" ELSE "")
    \o "}"

\* str(e)
Str(e) ==
    CASE e.type = "HTTPException" -> ToString(e.status_code) \o ": " \o Repr(e.detail)
      [] e.type = "KeyError" -> "'" \o e.detail \o "'"
      [] OTHER -> e.detail

\* what the framework sends for a raised HTTPException
ErrorResponse(e) == [status_code |-> e.status_code, body |-> e.detail]

NoResponse == [status_code |-> 0, body |-> None]

ConversationResponse(conversation_id, conversation_url, user_id) ==
    [status_code |-> 200,
     body |-> [success |-> TRUE, conversation_id |-> conversation_id,
               conversation_url |-> conversation_url, user_id |-> user_id,
               error |-> None, details |-> None]]

EndConversationResponse ==
    [status_code |-> 200,
     body |-> [success |-> TRUE,
               message |-> "Conversation ended and deleted successfully",
               error |-> None]]

----------------------------------------------------------------------------
(* Helpers of the handlers *)

\* user_id = request.user_id or str(uuid.uuid4())
ResolveUserIdAlwaysFresh(supplied, fresh) == fresh

ResolveUserId(supplied, fresh) == IF Truthy(supplied) THEN supplied ELSE fresh

\* if response.status_code == 200
CreateOkAnyStatus(response) == response.kind = "response"

CreateOk(response) == response.status_code = 200

\* the dict stored for a user
StoredRecordNoId(conversation_id, created_at) ==
    [conversation_id |-> None, created_at |-> created_at]

StoredRecord(conversation_id, created_at) ==
    [conversation_id |-> conversation_id, created_at |-> created_at]

\* active_conversations[user_id] = record
SetRecord(m, user_id, record) ==
    [u \in DOMAIN m \cup {user_id} |-> IF u = user_id THEN record ELSE m[u]]

\* del active_conversations[user_id]
DelRecordKept(m, user_id) == m

DelRecord(m, user_id) == [u \in DOMAIN m \ {user_id} |-> m[u]]

\* not (not user_id or user_id not in active_conversations)
HasConversationAnyId(m, user_id) == Truthy(user_id)

HasConversation(m, user_id) == Truthy(user_id) /\ user_id \in DOMAIN m

\* len(active_conversations)
ActiveCountCreated(m) == convs

ActiveCount(m) == Cardinality(DOMAIN m)

\* the result of end_conversation once both calls have returned: the two
\* responses are never read
EndResultChecked(end_response, delete_response) ==
    IF end_response.status_code = 200 /\ delete_response.status_code = 200
    THEN EndConversationResponse
    ELSE ErrorResponse(HTTPException(500,
             [success |-> FALSE, error |-> "Failed to end conversation"]))

EndResult(end_response, delete_response) == EndConversationResponse

\* the except clauses of create_riddle_conversation
CreateExcept(e) ==
    IF e.type = "RequestException"
    THEN ErrorResponse(HTTPException(500,
             [success |-> FALSE, error |-> "Request failed: " \o Str(e)]))
    ELSE ErrorResponse(HTTPException(500,
             [success |-> FALSE, error |-> Str(e)]))

\* the except clauses of end_conversation
EndExcept(e) ==
    IF e.type = "HTTPException"
    THEN ErrorResponse(e)
    ELSE ErrorResponse(HTTPException(500,
             [success |-> FALSE, error |-> Str(e)]))

----------------------------------------------------------------------------
(* Request slots *)

IdleTask ==
    [pc |-> "idle", op |-> "none", request_user_id |-> None, user_id |-> None,
     conversation_id |-> None, calls |-> <<>>, results |-> <<>>,
     before |-> EmptyMap, after |-> EmptyMap, response |-> NoResponse]

\* slots are anonymous: a new request takes the lowest free one
Free(r) == tasks[r].pc = "idle" /\ \A q \in 1..(r - 1) : tasks[q].pc # "idle"

\* a request returns `response`, the mapping being m
Done(task, response, m) ==
    [task EXCEPT !.pc = "done", !.response = response, !.after = m]

\* the request in slot r returns: the slot is free again
Finish(r, done) ==
    /\ tasks' = [tasks EXCEPT ![r] = IdleTask]
    /\ last' = done

Init ==
    /\ active_conversations = EmptyMap
    /\ tasks = [r \in Req |-> IdleTask]
    /\ last = IdleTask
    /\ running = 0
    /\ uuids = 0
    /\ convs = 0
    /\ now = 0
    /\ provider_calls = {}

\* time passes
Tick ==
    /\ now < MaxClock
    /\ now' = now + 1
    /\ UNCHANGED <<active_conversations, tasks, last, running, uuids, convs, provider_calls>>

----------------------------------------------------------------------------
(* POST /api/create-riddle-conversation *)

\* lines 56-88: resolve the user id, build the payload, send the create call
CreateSession(r, supplied) ==
    /\ running = 0
    /\ Free(r)
    /\ Truthy(supplied) \/ uuids < MaxUuid
    /\ LET user_id == ResolveUserId(supplied, Uuid(uuids + 1))
           call == Call("POST", CreateUrl)
       IN /\ tasks' = [tasks EXCEPT ![r] =
                 [IdleTask EXCEPT !.pc = "create_call", !.op = "create",
                                  !.request_user_id = supplied,
                                  !.user_id = user_id,
                                  !.calls = <<call>>,
                                  !.before = active_conversations]]
          /\ provider_calls' = provider_calls \cup {call}
    /\ uuids' = IF Truthy(supplied) THEN uuids ELSE uuids + 1
    /\ running' = OutboundCall(r)
    /\ UNCHANGED <<active_conversations, last, convs, now>>

\* lines 88-133: the create call returns `response` or raises
CreateReturns(r, response) ==
    /\ tasks[r].pc = "create_call"
    /\ running = OutboundCall(r)
    /\ response \in CreateOutcomes
    /\ LET task == [tasks[r] EXCEPT !.results = Append(@, response)]
       IN IF response.kind = "exception"
          THEN /\ Finish(r, Done(task,
                                  CreateExcept(RequestException(response.text)),
                                  active_conversations))
               /\ UNCHANGED active_conversations
          ELSE IF CreateOk(response)
          THEN LET m == SetRecord(active_conversations, task.user_id,
                            StoredRecord(response.conversation_id, now))
               IN /\ active_conversations' = m
                  /\ Finish(r, Done([task EXCEPT !.conversation_id =
                                                      response.conversation_id],
                                     ConversationResponse(response.conversation_id,
                                                          response.conversation_url,
                                                          task.user_id),
                                     m))
          ELSE /\ Finish(r, Done(task,
                                  CreateExcept(HTTPException(500,
                                      [success |-> FALSE,
                                       error |-> "Failed to create conversation",
                                       details |-> response.text])),
                                  active_conversations))
               /\ UNCHANGED active_conversations
    /\ convs' = IF response.kind = "response" /\ response.status_code = 200
                THEN convs + 1 ELSE convs
    /\ running' = 0
    /\ UNCHANGED <<uuids, now, provider_calls>>

----------------------------------------------------------------------------
(* POST /api/end-conversation *)

\* lines 137-158: the precondition check; on success read the stored
\* conversation id and send the end call
EndSession(r, user_id) ==
    /\ running = 0
    /\ Free(r)
    /\ LET task == [IdleTask EXCEPT !.op = "end", !.request_user_id = user_id,
                                    !.user_id = user_id,
                                    !.before = active_conversations]
       IN IF ~HasConversation(active_conversations, user_id)
          THEN /\ Finish(r, Done(task,
                                  EndExcept(HTTPException(404,
                                      [success |-> FALSE,
                                       error |-> "No active conversation found for user"])),
                                  active_conversations))
               /\ running' = 0
               /\ UNCHANGED provider_calls
          ELSE IF user_id \notin DOMAIN active_conversations
          THEN /\ Finish(r, Done(task, EndExcept(KeyError(user_id)), active_conversations))
               /\ running' = 0
               /\ UNCHANGED provider_calls
          ELSE LET conversation_id == active_conversations[user_id].conversation_id
                   call == Call("POST", EndUrl(conversation_id))
               IN /\ tasks' = [tasks EXCEPT ![r] =
                         [task EXCEPT !.pc = "end_call",
                                      !.conversation_id = conversation_id,
                                      !.calls = <<call>>]]
                  /\ provider_calls' = provider_calls \cup {call}
                  /\ running' = OutboundCall(r)
                  /\ UNCHANGED last
    /\ UNCHANGED <<active_conversations, uuids, convs, now>>

\* lines 158-162: the end call returns or raises; on a return send the
\* delete call
EndReturns(r, end_response) ==
    /\ tasks[r].pc = "end_call"
    /\ running = OutboundCall(r)
    /\ end_response \in CallOutcomes
    /\ LET task == [tasks[r] EXCEPT !.results = Append(@, end_response)]
           call == Call("DELETE", DeleteUrl(task.conversation_id))
       IN IF end_response.kind = "exception"
          THEN /\ Finish(r, Done(task,
                                  EndExcept(RequestException(end_response.text)),
                                  active_conversations))
               /\ running' = 0
               /\ UNCHANGED provider_calls
          ELSE /\ tasks' = [tasks EXCEPT ![r] =
                       [task EXCEPT !.pc = "delete_call",
                                    !.calls = Append(@, call)]]
               /\ provider_calls' = provider_calls \cup {call}
               /\ running' = OutboundCall(r)
               /\ UNCHANGED last
    /\ UNCHANGED <<active_conversations, uuids, convs, now>>

\* lines 162-181: the delete call returns or raises; on a return remove the
\* record and answer success
DeleteReturns(r, delete_response) ==
    /\ tasks[r].pc = "delete_call"
    /\ running = OutboundCall(r)
    /\ delete_response \in CallOutcomes
    /\ LET task == [tasks[r] EXCEPT !.results = Append(@, delete_response)]
       IN IF delete_response.kind = "exception"
          THEN /\ Finish(r, Done(task,
                                  EndExcept(RequestException(delete_response.text)),
                                  active_conversations))
               /\ UNCHANGED active_conversations
          ELSE IF task.user_id \notin DOMAIN active_conversations
          THEN /\ Finish(r, Done(task, EndExcept(KeyError(task.user_id)),
                                  active_conversations))
               /\ UNCHANGED active_conversations
          ELSE LET m == DelRecord(active_conversations, task.user_id)
               IN /\ active_conversations' = m
                  /\ Finish(r, Done(task, EndResult(task.results[1], delete_response), m))
    /\ running' = 0
    /\ UNCHANGED <<uuids, convs, now, provider_calls>>

----------------------------------------------------------------------------
(* GET /api/health and GET / *)

HealthCheck(r) ==
    /\ running = 0
    /\ Free(r)
    /\ Finish(r, Done([IdleTask EXCEPT !.op = "health", !.before = active_conversations],
                 [status_code |-> 200,
                  body |-> [status |-> "healthy",
                            active_conversations |-> ActiveCount(active_conversations),
                            framework |-> "FastAPI"]],
                 active_conversations))
    /\ UNCHANGED <<active_conversations, running, uuids, convs, now, provider_calls>>

Root(r) ==
    /\ running = 0
    /\ Free(r)
    /\ Finish(r, Done([IdleTask EXCEPT !.op = "root", !.before = active_conversations],
                 [status_code |-> 200,
                  body |-> [message |-> "SimAlly Game Backend API",
                            framework |-> "FastAPI"]],
                 active_conversations))
    /\ UNCHANGED <<active_conversations, running, uuids, convs, now, provider_calls>>

----------------------------------------------------------------------------

CreateInputs == {None} \cup CallerIds \cup GeneratedIds

EndInputs == CallerIds \cup GeneratedIds

Next ==
    \/ Tick
    \/ \E r \in Req : \E supplied \in CreateInputs : CreateSession(r, supplied)
    \/ \E r \in Req : \E response \in CreateOutcomes : CreateReturns(r, response)
    \/ \E r \in Req : \E user_id \in EndInputs : EndSession(r, user_id)
    \/ \E r \in Req : \E response \in CallOutcomes : EndReturns(r, response)
    \/ \E r \in Req : \E response \in CallOutcomes : DeleteReturns(r, response)
    \/ \E r \in Req : HealthCheck(r)
    \/ \E r \in Req : Root(r)

Spec == Init /\ [][Next]_vars

----------------------------------------------------------------------------
(* Vocabulary of the properties.  `last` is the request that returned      *)
(* last: its `before` and `after` are the mapping when its handler began   *)
(* and when it returned, `calls` and `results` its outbound calls and the  *)
(* provider's answers to them, in order.                                   *)

Returned(op) == last.pc = "done" /\ last.op = op

\* an EndSession whose user_id was in the mapping at the precondition check
EndPassed == Returned("end") /\ last.user_id \in DOMAIN last.before

\* both provider calls of the EndSession came back with an HTTP response
BothAnswered ==
    /\ Len(last.results) = 2
    /\ \A i \in 1..2 : last.results[i].kind = "response"

\* some provider call of the request raised
SomeCallRaised == \E i \in 1..Len(last.results) : last.results[i].kind = "exception"

\* the create call was answered with HTTP 200
CreateAnswered200 ==
    /\ Returned("create")
    /\ last.results[1].kind = "response"
    /\ last.results[1].status_code = 200

\* every record but that of user_id is the same in m1 and m2
SameButFor(user_id, m1, m2) ==
    /\ DOMAIN m1 \ {user_id} = DOMAIN m2 \ {user_id}
    /\ \A u \in DOMAIN m1 \ {user_id} : m1[u] = m2[u]

\* the provider's end action on conversation c: POST /v2/conversations/{c}/end
EndCallFor(c) ==
    [method |-> "POST", url |-> "https://tavusapi.com/v2/conversations/" \o c \o "/end"]

\* the provider's delete action on conversation c: DELETE /v2/conversations/{c}
DeleteCallFor(c) ==
    [method |-> "DELETE", url |-> "https://tavusapi.com/v2/conversations/" \o c]

\* the conversations some end or delete call has targeted
Targeted ==
    {c \in Created : EndCallFor(c) \in provider_calls \/ DeleteCallFor(c) \in provider_calls}

InFlight == {r \in Req : tasks[r].pc # "idle"}

----------------------------------------------------------------------------
(* C1 *)

\* C1 as stated: an EndSession whose user_id is in the mapping at the
\* precondition check leaves no record of that user_id once it has been
\* processed, whatever the end and delete calls did (status 200, an error
\* status, or a transport failure).
C1_RemovedWhateverOutcome == EndPassed => last.user_id \notin DOMAIN last.after

\* C1 amended: the record is removed (and no other record touched) when
\* both provider calls came back with a response, of any status; when the
\* end call or the delete call raises, the mapping is left as it was and the
\* record stays.
C1_RemovedWhenBothAnswered ==
    EndPassed =>
        /\ BothAnswered =>
               /\ last.user_id \notin DOMAIN last.after
               /\ SameButFor(last.user_id, last.before, last.after)
        /\ SomeCallRaised => last.after = last.before

C1_Witness ==
    /\ EndPassed
    /\ BothAnswered
    /\ last.results[1].status_code = 503
    /\ last.results[2].status_code = 503

----------------------------------------------------------------------------
(* C2 *)

\* C2 as stated: an EndSession that passes the precondition check returns
\* the success result with the confirmation message, never an error result,
\* whatever the outcomes of the end and delete calls.
C2_AlwaysSuccess ==
    EndPassed =>
        /\ last.response.status_code = 200
        /\ last.response.body.success

\* C2 amended: it returns the success result with the confirmation message
\* when both provider calls came back with a response, of any status; when
\* the end call or the delete call raises, it returns the generic error
\* result, HTTP 500 with the exception's message.
C2_SuccessWhenBothAnswered ==
    EndPassed =>
        /\ BothAnswered =>
               /\ last.response.status_code = 200
               /\ last.response.body.success
               /\ last.response.body.message
                      = "Conversation ended and deleted successfully"
        /\ SomeCallRaised =>
               /\ last.response.status_code = 500
               /\ ~last.response.body.success
               /\ last.response.body.error = TransportFailure.text

C2_Witness ==
    /\ EndPassed
    /\ BothAnswered
    /\ last.results[1].status_code = 503
    /\ last.results[2].status_code = 200

----------------------------------------------------------------------------
(* C3 *)

\* C3: a CreateSession whose create call is answered with a status other
\* than 200, or fails at the transport level, leaves the mapping as it was
\* before the request, so the count HealthCheck reports is unaffected.
C3_MappingOnlyOn200 ==
    Returned("create") /\ ~CreateAnswered200 =>
        /\ last.after = last.before
        /\ active_conversations = last.before
        /\ ActiveCount(last.after) = ActiveCount(last.before)

C3_Witness ==
    /\ Returned("create")
    /\ last.results[1].kind = "response"
    /\ last.results[1].status_code = 503
    /\ last.before # EmptyMap

----------------------------------------------------------------------------
(* C4 *)

----------------------------------------------------------------------------
(* C5 *)

\* an EndSession for a user_id without a record returns 404, sends nothing
\* to the provider and leaves the mapping as it was
C5_NotFoundNow ==
    Returned("end") /\ last.user_id \notin DOMAIN last.before =>
        /\ last.response.status_code = 404
        /\ last.response.body.error = "No active conversation found for user"
        /\ last.calls = <<>>
        /\ last.after = last.before

\* of two EndSessions in a row for one user_id, the first having succeeded,
\* the second returns 404
C5_TwiceInARow ==
    /\ Returned("end")
    /\ last.response.status_code = 200
    /\ last' # last
    /\ last'.op = "end"
    /\ last'.user_id = last.user_id
    => /\ last'.response.status_code = 404
       /\ last'.calls = <<>>
       /\ active_conversations' = active_conversations

----------------------------------------------------------------------------
(* C6 *)

\* C6: when the create call is answered with a status other than 200,
\* CreateSession returns the provider-error result: error 'Failed to create
\* conversation' with the provider's raw response body as details, which is
\* neither the transport-failure result nor the generic result.
C6_ProviderErrorResult ==
    /\ Returned("create")
    /\ last.results[1].kind = "response"
    /\ last.results[1].status_code # 200
    => /\ last.response.status_code = 500
       /\ last.response.body =
              [success |-> FALSE,
               error |-> "Failed to create conversation",
               details |-> last.results[1].text]

----------------------------------------------------------------------------
(* C7 *)

\* C7: HealthCheck returns status healthy and an active_conversations count
\* equal to the number of records in the mapping at the time of the call; it
\* issues no provider call and leaves the mapping unchanged.
C7_HealthCount ==
    Returned("health") =>
        /\ last.response.status_code = 200
        /\ last.response.body.status = "healthy"
        /\ last.response.body.active_conversations = Cardinality(DOMAIN last.before)
        /\ last.response.body.active_conversations
               = Cardinality(DOMAIN active_conversations)
        /\ last.after = last.before
        /\ last.calls = <<>>

C7_Witness ==
    /\ Returned("health")
    /\ last.response.body.active_conversations = 1
    /\ convs = 2

----------------------------------------------------------------------------
(* C8 *)

\* C8 as stated: an EndSession that passes the precondition check issues
\* exactly one end call and then exactly one delete call, both for the
\* stored conversation id, the delete call whatever the outcome of the end
\* call (status 200, error status or failure).
C8_EndThenDeleteAlways ==
    EndPassed =>
        LET c == last.before[last.user_id].conversation_id
        IN last.calls = <<EndCallFor(c), DeleteCallFor(c)>>

\* C8 amended: it issues exactly one end call for the stored conversation
\* id; when the end call comes back with a response, of any status, exactly
\* one delete call for the same id follows; when the end call raises, no
\* delete call is issued.  No call is retried.
C8_EndThenDeleteWhenAnswered ==
    EndPassed =>
        LET c == last.before[last.user_id].conversation_id
        IN /\ Len(last.results) = Len(last.calls)
           /\ last.results[1].kind = "response" =>
                  last.calls = <<EndCallFor(c), DeleteCallFor(c)>>
           /\ last.results[1].kind = "exception" =>
                  last.calls = <<EndCallFor(c)>>

C8_Witness ==
    /\ EndPassed
    /\ last.results[1].status_code = 503
    /\ Len(last.calls) = 2
    /\ last.results[2].kind = "exception"

----------------------------------------------------------------------------
(* C9 *)

----------------------------------------------------------------------------
(* C10 *)

\* C10: between requests, every conversation the provider created and that
\* no end or delete call has targeted is the conversation id of some record
\* of the mapping, so an EndSession can still end it.
C10_CreatedStaysReachable ==
    running = 0 =>
        \A c \in Created \ Targeted :
            \E u \in DOMAIN active_conversations :
                active_conversations[u].conversation_id = c

====
